---- MODULE Spec2Model ----
(***************************************************************************)
(* The chat page of magangChatbot_AI as a state machine.                   *)
(*                                                                         *)
(* The repository holds three near-duplicate versions of one React         *)
(* component, ChatInterface:                                               *)
(*   "production"  src/unnamed/part_000 lines 1-141   (cut off at 141)     *)
(*   "enhanced"    src/unnamed/part_000 lines 143-609 (complete)           *)
(*   "posts"       src/app/Posts/page.tsx             (cut off at 342)     *)
(* Each behaviour of the model runs one version, chosen in Init.  The      *)
(* state is the component's five useState cells, the timers started by     *)
(* handleQuickQuestion and the handleSubmit invocations suspended at       *)
(* `await fetch`.  The text input, the form and the error banner exist in  *)
(* the source only for the enhanced version (lines 545-597); the same      *)
(* markup is used for the two versions whose files are cut off before it.  *)
(*                                                                         *)
(* Text is a sequence of tokens (characters or longer fragments), so that  *)
(* trimming, concatenation and containment are computed, not assumed.      *)
(* JavaScript values are tagged records, so that undefined, null, "" and   *)
(* [] stay distinct and the || and ?. operators do what they do in JS.     *)
(* Timestamps (new Date()) and scrolling are not modelled.                 *)
(***************************************************************************)
EXTENDS Integers, Sequences, FiniteSets, TLC

VARIABLES
    version,        \* which ChatInterface is running
    question,       \* useState("")           : text of the input
    messages,       \* useState([])           : the transcript
    loading,        \* useState(false)
    error,          \* useState(null)         : Null or Str(text)
    selectedModel,  \* useState("groq")
    timers,         \* pending setTimeout callbacks of handleQuickQuestion
    inflight,       \* handleSubmit invocations suspended at `await fetch`
    issued,         \* calls of fetch so far (observation only)
    lastEvent       \* the event handled last (observation only)

vars == <<version, question, messages, loading, error, selectedModel,
          timers, inflight, issued, lastEvent>>

session == <<question, messages, loading, error, selectedModel>>

----------------------------------------------------------------------------
(* Bounds of the model *)

MaxTurns == 2     \* accepted submits per behaviour
MaxTimers == 2    \* quick-question timers pending at once

----------------------------------------------------------------------------
(* JavaScript values *)

Undefined == [t |-> "undefined"]
Null == [t |-> "null"]
Str(s) == [t |-> "string", v |-> s]
Arr(a) == [t |-> "array", v |-> a]
Obj(fields) == [t |-> "object", v |-> fields]

\* ToBoolean: undefined, null and "" are falsy; arrays and objects are truthy
Truthy(x) ==
    /\ x.t \notin {"undefined", "null"}
    /\ ~(x.t = "string" /\ x.v = <<>>)

\* a ?? b in place of a || b
OrElseNullish(a, b) == IF a.t \in {"undefined", "null"} THEN b ELSE a

\* a || b
OrElse(a, b) == IF Truthy(a) THEN a ELSE b

\* x.k throws a TypeError when x is undefined or null
Throws(x) == x.t \in {"undefined", "null"}

\* x.k (x?.k when x is nullish: undefined); a missing property reads undefined
Get(x, k) ==
    IF x.t = "object" /\ k \in DOMAIN x.v THEN x.v[k] ELSE Undefined

----------------------------------------------------------------------------
(* Text *)

IsSpace(c) == c = " "

\* a guard that forgets to trim
NoTrim(s) == s

\* String.prototype.trim
Trim(s) ==
    LET keep == {i \in 1..Len(s) : ~IsSpace(s[i])}
        lo == CHOOSE i \in keep : \A j \in keep : i <= j
        hi == CHOOSE i \in keep : \A j \in keep : j <= i
    IN  IF keep = {} THEN <<>> ELSE SubSeq(s, lo, hi)

\* hay.includes(needle)
Contains(hay, needle) ==
    \E i \in 0..(Len(hay) - Len(needle)) :
        SubSeq(hay, i + 1, i + Len(needle)) = needle

----------------------------------------------------------------------------
(* Inputs of the model *)

Versions == {"production", "enhanced", "posts"}

Models == {"groq", "gemini"}

\* values of e.target.value: empty, blank, and text with a leading blank
TypedTexts == {<<>>, <<" ">>, <<" ", "a">>}

\* the first entry of the quickQuestions array of each version (the array of
\* the production version lies beyond the end of its file)
quickQuestions(v) ==
    IF v = "enhanced"
    THEN {<<"Inflasi terendah di Jawa Timur bulan September 2025">>}
    ELSE IF v = "posts"
    THEN {<<"Data inflasi 2 tahun terakhir">>}
    ELSE {}

\* what `await fetch(...)` and `await res.json()` can produce
Rejected == [kind |-> "reject"]
Http(status, statusText, body) ==
    [kind |-> "http", status |-> status, statusText |-> statusText, body |-> body]
MalformedBody == [parse |-> "error"]
JsonBody(d) == [parse |-> "ok", data |-> d]

Answer == Str(<<"X">>)
Source == Obj([title |-> Str(<<"T">>), link |-> Str(<<"L">>)])

\* parsed bodies: JSON null; no answer; the answer with an empty source list;
\* with a source and a model; with an empty model name and no sources; with
\* sources null and a metadata block that names no model
DataSamples ==
    { Null,
      Obj([sources |-> Arr(<<>>)]),
      Obj([answer |-> Answer, sources |-> Arr(<<>>)]),
      Obj([answer |-> Answer, sources |-> Arr(<<Source>>),
           metadata |-> Obj([model |-> Str(<<"gemini">>)])]),
      Obj([answer |-> Answer, metadata |-> Obj([model |-> Str(<<>>)])]),
      Obj([answer |-> Answer, sources |-> Null,
           metadata |-> Obj([expanded_query |-> Str(<<"E">>)])]) }

Responses ==
    {Rejected,
     Http(500, "Internal Server Error", JsonBody(Obj([answer |-> Answer]))),
     Http(200, "OK", MalformedBody)}
      \cup {Http(200, "OK", JsonBody(d)) : d \in DataSamples}

----------------------------------------------------------------------------
(* handleSubmit: the pieces *)

TopK == 5

NoField == Undefined

\* a user Message holding the trimmed text
UserMessageTrimmed(q) ==
    [role |-> "user", content |-> Str(Trim(q)), sources |-> NoField,
     model |-> NoField, metadata |-> NoField]

UserMessage(q) ==
    [role |-> "user", content |-> Str(q), sources |-> NoField,
     model |-> NoField, metadata |-> NoField]

\* a body that carries the trimmed question
RequestBodyTrimmed(v, q, m) ==
    IF v = "enhanced"
    THEN [question |-> Trim(q), use_rag |-> TRUE, model |-> m, top_k |-> TopK]
    ELSE [question |-> Trim(q), use_rag |-> TRUE, model |-> m]

\* JSON.stringify({question, use_rag: true, model: selectedModel [, top_k: 5]})
RequestBody(v, q, m) ==
    IF v = "enhanced"
    THEN [question |-> q, use_rag |-> TRUE, model |-> m, top_k |-> TopK]
    ELSE [question |-> q, use_rag |-> TRUE, model |-> m]

\* a test that lets every status through
ResOkAnyStatus(res) == res.status >= 200

\* res.ok
ResOk(res) == res.status >= 200 /\ res.status <= 299

\* new Error(`API Error: ${res.status}`), with ` - ${res.statusText}` in the
\* enhanced version
ApiErrorText(v, res) ==
    IF v = "enhanced"
    THEN <<"API Error: ", ToString(res.status), " - ", res.statusText>>
    ELSE <<"API Error: ", ToString(res.status)>>

NoThrow == [thrown |-> FALSE]
ThrowError(text) == [thrown |-> TRUE, isError |-> TRUE, message |-> text]

\* what the try block throws, if anything
TryBlock(v, res) ==
    IF res.kind = "reject" THEN ThrowError(<<"Failed to fetch">>)
    ELSE IF ~ResOk(res) THEN ThrowError(ApiErrorText(v, res))
    ELSE IF res.body.parse = "error"
        THEN ThrowError(<<"Unexpected token in JSON">>)
    ELSE IF Throws(res.body.data)
        THEN ThrowError(<<"Cannot read properties of null">>)
    ELSE NoThrow

\* the assistantMessage literal; m is the selectedModel of the closure
AssistantMessage(v, data, m) ==
    [role |-> "assistant",
     content |-> Get(data, "answer"),
     sources |-> OrElse(Get(data, "sources"), Arr(<<>>)),
     model |-> OrElse(Get(Get(data, "metadata"), "model"), Str(<<m>>)),
     metadata |-> IF v = "posts" THEN Get(data, "metadata") ELSE NoField]

\* err instanceof Error ? err.message : "Terjadi kesalahan"
ErrorMessage(err) ==
    IF err.isError THEN err.message ELSE <<"Terjadi kesalahan">>

\* a reply that apologises without quoting the error
ErrorChatContentGeneric(v, text) ==
    IF v = "enhanced"
    THEN <<"Maaf, terjadi kesalahan: ">>
           \o <<"\n\nSilakan coba lagi atau hubungi administrator.">>
    ELSE <<"Maaf, terjadi kesalahan: ">>

ErrorChatContent(v, text) ==
    IF v = "enhanced"
    THEN <<"Maaf, terjadi kesalahan: ">> \o text
           \o <<"\n\nSilakan coba lagi atau hubungi administrator.">>
    ELSE <<"Maaf, terjadi kesalahan: ">> \o text

ErrorChatMessage(v, text) ==
    [role |-> "assistant", content |-> Str(ErrorChatContent(v, text)),
     sources |-> NoField, model |-> NoField, metadata |-> NoField]

----------------------------------------------------------------------------
(* The DOM: which controls take events *)

\* an input that stays enabled while loading
InputNeverDisabled == FALSE

\* <input ... disabled={loading} required />
InputDisabled == loading

\* model buttons that stay enabled while loading
ModelButtonsNeverDisabled == FALSE

\* quick-question buttons that stay enabled while loading
QuickButtonsNeverDisabled == FALSE

\* model buttons and quick-question buttons: disabled={loading}
ModelButtonsDisabled == loading
QuickButtonsDisabled == loading

\* <button type="submit" disabled={loading || !question.trim()}>
SubmitButtonDisabled == loading \/ Trim(question) = <<>>

\* {error && ( ...banner with the close button... )}
ErrorBannerVisible == Truthy(error)

\* form.requestSubmit() validates first: the input is `required`; a disabled
\* control is barred from validation
FormValid == InputDisabled \/ question # <<>>

\* accepted submits so far (the user Messages of the transcript)
Turns == Cardinality({i \in 1..Len(messages) : messages[i].role = "user"})

----------------------------------------------------------------------------
(* State after construction *)

Init ==
    /\ version \in Versions
    /\ question = <<>>
    /\ messages = <<>>
    /\ loading = FALSE
    /\ error = Null
    /\ selectedModel = "groq"
    /\ timers = 0
    /\ inflight = <<>>
    /\ issued = 0
    /\ lastEvent = [kind |-> "init"]

----------------------------------------------------------------------------
(* handleSubmit up to `await fetch`: runs on every submit event of the form *)

\* setMessages([userMessage]) in place of setMessages((prev) => [...prev, ...])
handleSubmitDropsTranscript ==
    IF Trim(question) = <<>>
    THEN UNCHANGED <<question, messages, loading, error, inflight, issued>>
    ELSE /\ messages' = <<UserMessage(question)>>
         /\ question' = <<>>
         /\ loading' = TRUE
         /\ error' = Null
         /\ inflight' = Append(inflight,
                [body |-> RequestBody(version, question, selectedModel),
                 selectedModel |-> selectedModel])
         /\ issued' = issued + 1

handleSubmit ==
    IF Trim(question) = <<>>
    THEN UNCHANGED <<question, messages, loading, error, inflight, issued>>
    ELSE /\ messages' = Append(messages, UserMessage(question))
         /\ question' = <<>>
         /\ loading' = TRUE
         /\ error' = Null
         /\ inflight' = Append(inflight,
                [body |-> RequestBody(version, question, selectedModel),
                 selectedModel |-> selectedModel])
         /\ issued' = issued + 1

\* the model stops accepting submits after MaxTurns of them
WithinTurns == Trim(question) = <<>> \/ Turns < MaxTurns

\* onChange={(e) => setQuestion(e.target.value)}
TypeInput(text) ==
    /\ ~InputDisabled
    /\ question' = text
    /\ lastEvent' = [kind |-> "input"]
    /\ UNCHANGED <<version, messages, loading, error, selectedModel,
                   timers, inflight, issued>>

\* the user submits the form (Enter, or the submit button); in the enhanced
\* version a disabled submit button blocks both
Submit ==
    /\ version = "enhanced" => ~SubmitButtonDisabled
    /\ WithinTurns
    /\ handleSubmit
    /\ lastEvent' = [kind |-> "submit"]
    /\ UNCHANGED <<version, selectedModel, timers>>

\* onClick={() => setSelectedModel(m)}
SelectModel(m) ==
    /\ ~ModelButtonsDisabled
    /\ selectedModel' = m
    /\ lastEvent' = [kind |-> "selectModel"]
    /\ UNCHANGED <<version, question, messages, loading, error,
                   timers, inflight, issued>>

\* posts version: onClick={() => setQuestion(q)}
QuickQuestion(q) ==
    /\ version = "posts"
    /\ ~QuickButtonsDisabled
    /\ question' = q
    /\ lastEvent' = [kind |-> "quick"]
    /\ UNCHANGED <<version, messages, loading, error, selectedModel,
                   timers, inflight, issued>>

\* enhanced version: setQuestion(q); setTimeout(..., 100)
handleQuickQuestion(q) ==
    /\ version = "enhanced"
    /\ ~QuickButtonsDisabled
    /\ timers < MaxTimers
    /\ question' = q
    /\ timers' = timers + 1
    /\ lastEvent' = [kind |-> "quick"]
    /\ UNCHANGED <<version, messages, loading, error, selectedModel,
                   inflight, issued>>

\* a timer callback that also gives up waiting: setLoading(false)
TimerFiresAsTimeout ==
    /\ timers > 0
    /\ WithinTurns
    /\ timers' = timers - 1
    /\ loading' = FALSE
    /\ UNCHANGED <<question, messages, error, inflight, issued>>
    /\ lastEvent' = [kind |-> "timer"]
    /\ UNCHANGED <<version, selectedModel>>

\* the timer callback: form.requestSubmit()
TimerFires ==
    /\ timers > 0
    /\ WithinTurns
    /\ timers' = timers - 1
    /\ IF FormValid
       THEN handleSubmit
       ELSE UNCHANGED <<question, messages, loading, error, inflight, issued>>
    /\ lastEvent' = [kind |-> "timer"]
    /\ UNCHANGED <<version, selectedModel>>

\* a close button that also empties the input
DismissErrorAndInput ==
    /\ error' = Null
    /\ question' = <<>>
    /\ lastEvent' = [kind |-> "dismissError"]
    /\ UNCHANGED <<version, messages, loading, selectedModel, timers,
                   inflight, issued>>

\* error banner: onClick={() => setError(null)}
DismissError ==
    /\ error' = Null
    /\ lastEvent' = [kind |-> "dismissError"]
    /\ UNCHANGED <<version, question, messages, loading, selectedModel,
                   timers, inflight, issued>>

\* a catch block that sends the request again instead of giving up
ResumeWithRetry(i, res) ==
    LET req == inflight[i]
        thrown == TryBlock(version, res)
    IN  /\ IF thrown.thrown
           THEN /\ error' = Str(ErrorMessage(thrown))
                /\ messages' = messages
                /\ inflight' = inflight
                /\ issued' = issued + 1
                /\ loading' = loading
           ELSE /\ error' = error
                /\ messages' = Append(messages,
                       AssistantMessage(version, res.body.data, req.selectedModel))
                /\ inflight' = SubSeq(inflight, 1, i - 1)
                                 \o SubSeq(inflight, i + 1, Len(inflight))
                /\ issued' = issued
                /\ loading' = FALSE
        /\ lastEvent' = [kind |-> "response", res |-> res]
        /\ UNCHANGED <<version, question, selectedModel, timers>>

\* the same without the finally block: setLoading(false) only after the
\* assistant Message, so a failure leaves loading set
ResumeWithoutFinally(i, res) ==
    LET req == inflight[i]
        thrown == TryBlock(version, res)
    IN  /\ inflight' = SubSeq(inflight, 1, i - 1)
                         \o SubSeq(inflight, i + 1, Len(inflight))
        /\ IF thrown.thrown
           THEN /\ error' = Str(ErrorMessage(thrown))
                /\ messages' = Append(messages,
                       ErrorChatMessage(version, ErrorMessage(thrown)))
                /\ loading' = loading
           ELSE /\ error' = error
                /\ messages' = Append(messages,
                       AssistantMessage(version, res.body.data, req.selectedModel))
                /\ loading' = FALSE
        /\ lastEvent' = [kind |-> "response", res |-> res]
        /\ UNCHANGED <<version, question, selectedModel, timers, issued>>

\* handleSubmit from `await fetch` to the end of `finally`, for the i-th
\* suspended invocation and the outcome res of its request
Resume(i, res) ==
    LET req == inflight[i]
        thrown == TryBlock(version, res)
    IN  /\ inflight' = SubSeq(inflight, 1, i - 1)
                         \o SubSeq(inflight, i + 1, Len(inflight))
        /\ IF thrown.thrown
           THEN /\ error' = Str(ErrorMessage(thrown))
                /\ messages' = Append(messages,
                       ErrorChatMessage(version, ErrorMessage(thrown)))
           ELSE /\ error' = error
                /\ messages' = Append(messages,
                       AssistantMessage(version, res.body.data, req.selectedModel))
        /\ loading' = FALSE
        /\ lastEvent' = [kind |-> "response", res |-> res]
        /\ UNCHANGED <<version, question, selectedModel, timers, issued>>

ResponseArrives ==
    \E i \in 1..Len(inflight) : \E res \in Responses : Resume(i, res)

Next ==
    \/ \E text \in TypedTexts : TypeInput(text)
    \/ Submit
    \/ \E m \in Models : SelectModel(m)
    \/ \E q \in quickQuestions(version) : QuickQuestion(q)
    \/ \E q \in quickQuestions(version) : handleQuickQuestion(q)
    \/ TimerFires
    \/ DismissError
    \/ ResponseArrives

Spec == Init /\ [][Next]_vars

----------------------------------------------------------------------------
(* Vocabulary of the claims *)

\* this step handled a submit event of the form (by hand or from the timer)
SubmitEvent == lastEvent'.kind \in {"submit", "timer"}

\* this step issued a request
RequestIssued == Len(inflight') > Len(inflight)

\* this step resumed a suspended handleSubmit with the outcome lastEvent'.res
ResponseEvent == lastEvent'.kind = "response"

\* the text is empty or consists of blanks only
Blank(text) == \A i \in 1..Len(text) : text[i] = " "

IsErrorReply(m) ==
    /\ m.role = "assistant"
    /\ m.content.t = "string"
    /\ Contains(m.content.v, <<"Maaf, terjadi kesalahan: ">>)

----------------------------------------------------------------------------
\* C1: single-flight.  In every reachable state at most one request is
\* outstanding, and no step issues a request while loading is true, whatever
\* the interleaving of submits, quick-question clicks and their timers,
\* model selection, error dismissal and responses.
C1_SingleFlight ==
    [][ /\ Len(inflight') <= 1
        /\ RequestIssued => ~loading ]_vars

\* a request is outstanding while an auto-submit timer is still to fire
C1_Witness ==
    /\ loading
    /\ Len(inflight) = 1
    /\ timers > 0

\* C2: a submit event is a no-op when the input is empty or blank, or when
\* the session is Awaiting: transcript, input, loading, error and selected
\* model are unchanged and no request is issued.
C2_SubmitNoOp ==
    [][ (SubmitEvent /\ (Blank(question) \/ loading))
            => UNCHANGED <<question, messages, loading, error, selectedModel,
                           inflight>> ]_vars

\* a blank input was submitted after a first exchange, and nothing happened
C2_Witness ==
    /\ lastEvent.kind = "submit"
    /\ question = <<" ">>
    /\ Len(messages) = 2
    /\ ~loading

\* C3: a submit event with an input that is non-empty after trimming
\* appends, in that same step, exactly one user Message whose content is the
\* raw input, empties the input, sets loading and clears error.
C3_SubmitAccepted ==
    [][ (SubmitEvent /\ ~Blank(question))
            => /\ messages' = Append(messages,
                      [role |-> "user", content |-> Str(question),
                       sources |-> Undefined, model |-> Undefined,
                       metadata |-> Undefined])
               /\ question' = <<>>
               /\ loading' = TRUE
               /\ error' = Null
               /\ RequestIssued ]_vars

\* the second question, typed with a leading blank, was accepted after a
\* failed first exchange: it is in the transcript as typed, error is cleared
C3_Witness ==
    /\ loading
    /\ error = Null
    /\ question = <<>>
    /\ Len(messages) = 3
    /\ IsErrorReply(messages[2])
    /\ messages[3].role = "user"
    /\ messages[3].content = Str(<<" ", "a">>)

----------------------------------------------------------------------------
(* The response delivered by a ResponseEvent step, as the claims read it *)

Delivered == lastEvent'.res

Is2xx(res) == res.kind = "http" /\ res.status \in 200..299

Failed(res) == res.kind = "reject" \/ ~Is2xx(res)

Parsed(res) == Is2xx(res) /\ res.body.parse = "ok"

\* the parsed body is an object that has the property k
Has(data, k) == data.t = "object" /\ k \in DOMAIN data.v

CarriesAnswer(res) == Parsed(res) /\ Has(res.body.data, "answer")

\* the Message this step appended, when it appended exactly one
AppendedOne == Len(messages') = Len(messages) + 1
                 /\ SubSeq(messages', 1, Len(messages)) = messages
Appended == messages'[Len(messages')]

\* the model selected when the outstanding request was submitted
ModelAtSubmit == inflight[1].selectedModel

\* C4 as stated: on a 2xx response carrying an answer the transcript gains
\* exactly one assistant Message with that answer, with the response's sources
\* (the empty list when sources is absent) and with metadata.model (the model
\* selected at submit when that is absent); loading becomes false and error
\* stays null.
C4_SuccessAsStated ==
    [][ (ResponseEvent /\ CarriesAnswer(Delivered))
          => LET data == Delivered.body.data
                 meta == IF Has(data, "metadata") THEN data.v.metadata
                         ELSE Undefined
             IN  /\ AppendedOne
                 /\ Appended.role = "assistant"
                 /\ Appended.content = data.v.answer
                 /\ Appended.sources =
                        IF Has(data, "sources") THEN data.v.sources
                        ELSE Arr(<<>>)
                 /\ Appended.model =
                        IF Has(meta, "model") THEN meta.v.model
                        ELSE Str(<<ModelAtSubmit>>)
                 /\ loading' = FALSE
                 /\ error = Null /\ error' = Null ]_vars

\* C4 amended: as above, but the empty list also stands in for sources that
\* are present and falsy (null), and the model selected at submit also stands
\* in for a metadata.model that is present and falsy (the empty string).
C4_Success ==
    [][ (ResponseEvent /\ CarriesAnswer(Delivered))
          => LET data == Delivered.body.data
                 meta == IF Has(data, "metadata") THEN data.v.metadata
                         ELSE Undefined
                 usable(x, k) == Has(x, k) /\ x.v[k] \notin {Null, Str(<<>>)}
             IN  /\ AppendedOne
                 /\ Appended.role = "assistant"
                 /\ Appended.content = data.v.answer
                 /\ Appended.sources =
                        IF usable(data, "sources") THEN data.v.sources
                        ELSE Arr(<<>>)
                 /\ Appended.model =
                        IF usable(meta, "model") THEN meta.v.model
                        ELSE Str(<<ModelAtSubmit>>)
                 /\ loading' = FALSE
                 /\ error = Null /\ error' = Null ]_vars

\* a 2xx response with an answer and an empty model name arrived while
\* "gemini" was selected: the reply carries the answer and the model gemini
C4_Witness ==
    /\ lastEvent.kind = "response"
    /\ CarriesAnswer(lastEvent.res)
    /\ Has(lastEvent.res.body.data, "metadata")
    /\ Get(lastEvent.res.body.data.v.metadata, "model") = Str(<<>>)
    /\ ~loading
    /\ error = Null
    /\ messages[Len(messages)].content = Answer
    /\ messages[Len(messages)].model = Str(<<"gemini">>)

\* C5: when the request fails by a network error or a non-2xx status,
\* whatever the body, error becomes non-null, the transcript gains exactly one
\* assistant Message whose content contains the error text, and loading
\* becomes false.
C5_Failure ==
    [][ (ResponseEvent /\ Failed(Delivered))
          => /\ error' # Null
             /\ error'.t = "string"
             /\ AppendedOne
             /\ Appended.role = "assistant"
             /\ Appended.content.t = "string"
             /\ Contains(Appended.content.v, error'.v)
             /\ (Delivered.kind = "http"
                    => Contains(error'.v, <<ToString(Delivered.status)>>))
             /\ loading' = FALSE ]_vars

\* a 500 whose body is a well-formed answer ended in an error reply
C5_Witness ==
    /\ lastEvent.kind = "response"
    /\ lastEvent.res.kind = "http"
    /\ lastEvent.res.status = 500
    /\ lastEvent.res.body.parse = "ok"
    /\ error # Null
    /\ ~loading
    /\ IsErrorReply(messages[Len(messages)])

\* C6: a 2xx response whose body is malformed JSON or lacks the answer field
\* is handled like a transport failure: error is set, an error reply is
\* appended, and no Message built from the body is appended.
C6_ShapeError ==
    [][ (ResponseEvent /\ Is2xx(Delivered) /\ ~CarriesAnswer(Delivered))
          => /\ error' # Null
             /\ AppendedOne
             /\ IsErrorReply(Appended) ]_vars

----------------------------------------------------------------------------
\* the question of the outstanding request: the content of the user Message
\* its submit appended
Submitted == messages[Len(messages)].content.v

\* C7 as stated: every outstanding request carries exactly
\* {question: the submitted raw text, use_rag: true, model: the selected
\* model} and no other field, in every version.
C7_BodyAsStated ==
    \A i \in 1..Len(inflight) :
        inflight[i].body = [question |-> Submitted, use_rag |-> TRUE,
                            model |-> selectedModel]

\* C7 amended: the body carries question, use_rag and model as stated; the
\* enhanced version adds top_k: 5 and the other versions add nothing.
C7_Body ==
    \A i \in 1..Len(inflight) :
        LET body == inflight[i].body
        IN  /\ body.question = Submitted
            /\ body.use_rag = TRUE
            /\ body.model = selectedModel
            /\ body.model = inflight[i].selectedModel
            /\ DOMAIN body = {"question", "use_rag", "model"}
                   \cup (IF version = "enhanced" THEN {"top_k"} ELSE {})
            /\ version = "enhanced" => body.top_k = 5

\* the enhanced version has sent a question typed with a leading blank while
\* gemini was selected
C7_Witness ==
    /\ version = "enhanced"
    /\ Len(inflight) = 1
    /\ inflight[1].body.question = <<" ", "a">>
    /\ inflight[1].body.model = "gemini"

\* C8: selectModel does nothing while loading; when Idle it sets the selected
\* model and changes nothing else; so every outstanding request's model is
\* the selected model for as long as the request is outstanding.
C8_SelectModel ==
    [][ /\ loading => selectedModel' = selectedModel
        /\ lastEvent'.kind = "selectModel"
              => /\ ~loading
                 /\ selectedModel' \in Models
                 /\ UNCHANGED <<question, messages, loading, error, timers,
                                inflight>>
        /\ \A i \in 1..Len(inflight') :
              inflight'[i].body.model = selectedModel' ]_vars

\* gemini was selected while Idle and the request now outstanding carries it
C8_Witness ==
    /\ loading
    /\ selectedModel = "gemini"
    /\ Len(inflight) = 1
    /\ inflight[1].body.model = "gemini"

\* C9: a quick-question click while Idle sets the input to the preset and
\* submits at once: the step ends in the state, and issues the request, of a
\* manual submit of the preset text.
C9_QuickFill ==
    [][ lastEvent'.kind = "quick"
          => \E q \in quickQuestions(version) :
                /\ messages' = Append(messages,
                       [role |-> "user", content |-> Str(q),
                        sources |-> Undefined, model |-> Undefined,
                        metadata |-> Undefined])
                /\ question' = <<>>
                /\ loading' = TRUE
                /\ error' = Null
                /\ Len(inflight') = Len(inflight) + 1
                /\ inflight'[Len(inflight')].body.question = q
                /\ inflight'[Len(inflight')].body.model = selectedModel ]_vars

\* C10: dismissError sets error to null and leaves transcript, input,
\* loading and selected model unchanged; with error already null nothing of
\* the session changes.
C10_DismissError ==
    [][ lastEvent'.kind = "dismissError"
          => /\ error' = Null
             /\ UNCHANGED <<question, messages, loading, selectedModel,
                            timers, inflight>>
             /\ error = Null => UNCHANGED session ]_vars

\* the banner of a failed exchange was dismissed; the error reply stays
C10_Witness ==
    /\ lastEvent.kind = "dismissError"
    /\ error = Null
    /\ ~loading
    /\ Len(messages) = 2
    /\ IsErrorReply(messages[2])

----------------------------------------------------------------------------
(* What the user can do in a state *)

\* a click on a model button can change the selected model
CanSelectModel ==
    ENABLED (\E m \in Models : SelectModel(m) /\ selectedModel' # selectedModel)

\* the banner is shown and its close button clears a non-null error
CanDismissError ==
    ErrorBannerVisible /\ ENABLED (DismissError /\ error' # error)

\* a submit event can issue a request
CanSubmit ==
    ENABLED ((Submit \/ TimerFires) /\ Len(inflight') > Len(inflight))

\* C11 as stated: while a request is outstanding, model selection and error
\* dismissal are both enabled and take effect; only re-submission is blocked.
C11_ResponsiveAsStated ==
    loading => (CanSelectModel /\ CanDismissError /\ ~CanSubmit)

\* C11 amended: while a request is outstanding, re-submission is blocked and
\* so is model selection (the model buttons are disabled), and there is no
\* error to dismiss (error is null, so no banner is shown).
C11_Responsive ==
    loading => (~CanSelectModel /\ ~CanDismissError /\ ~CanSubmit)

\* a request is outstanding after a failed exchange whose banner the second
\* submit removed, with a model other than the default selected
C11_Witness ==
    /\ loading
    /\ Len(messages) = 3
    /\ IsErrorReply(messages[2])
    /\ selectedModel = "gemini"

----------------------------------------------------------------------------
\* C12: the transcript is append-only.  Every step leaves the transcript it
\* found as a prefix of the transcript it leaves: no Message is removed,
\* reordered or modified.
C12_AppendOnly ==
    [][ /\ Len(messages') >= Len(messages)
        /\ SubSeq(messages', 1, Len(messages)) = messages ]_vars

\* two complete exchanges: a failed one, then an answered one
C12_Witness ==
    /\ ~loading
    /\ Len(messages) = 4
    /\ IsErrorReply(messages[2])
    /\ messages[4].content = Answer

----------------------------------------------------------------------------
(* Every issued request resolves in the end: fetch settles, with a response or
   with a rejection, and the suspended handleSubmit then runs to its end. *)

FairSpec == Spec /\ WF_vars(ResponseArrives)

\* C13: if every issued request eventually resolves, every Awaiting state is
\* followed by an Idle one, and every resolution, by success or by failure,
\* ends with loading false.
C13_AwaitingEnds ==
    /\ loading ~> ~loading
    /\ [][ ResponseEvent => (loading /\ ~loading') ]_vars

\* back to Idle after a rejected fetch that followed an answered exchange
C13_Witness ==
    /\ ~loading
    /\ lastEvent.kind = "response"
    /\ lastEvent.res.kind = "reject"
    /\ Len(messages) = 4
    /\ messages[2].content = Answer

----------------------------------------------------------------------------
\* C14: no timeout and no cancellation.  The only step that takes loading
\* from true to false is the resolution of the outstanding request; every
\* other step taken while loading leaves loading true and the request
\* outstanding.
C14_OnlyResolutionEnds ==
    [][ /\ (loading /\ ~loading')
            => (ResponseEvent /\ Len(inflight') = Len(inflight) - 1)
        /\ (loading /\ ~ResponseEvent)
            => (loading' /\ inflight' = inflight) ]_vars

\* Awaiting in the second exchange, the request outstanding, right after an
\* auto-submit timer callback ran
C14_Witness ==
    /\ loading
    /\ Len(inflight) = 1
    /\ lastEvent.kind = "timer"
    /\ Len(messages) = 3
    /\ messages[3].content = Str(<<" ", "a">>)

----------------------------------------------------------------------------
\* the user Messages of a transcript
UserMessages(ms) == Cardinality({i \in 1..Len(ms) : ms[i].role = "user"})

\* C15: no automatic retry.  Every resolution leaves the session Idle with
\* no request outstanding and issues no request; a request that failed (no
\* response, a non-2xx status, or a body that is not JSON) leaves the user's
\* question followed by one error reply at the end of the transcript; a
\* request is issued only by an accepted submit; and in every reachable state
\* the number of requests issued equals the number of user Messages.
C15_NoRetry ==
    [][ /\ issued' = UserMessages(messages')
        /\ RequestIssued <=> issued' = issued + 1
        /\ issued' # issued => (SubmitEvent /\ ~Blank(question) /\ ~loading)
        /\ ResponseEvent
              => /\ ~loading'
                 /\ inflight' = <<>>
                 /\ issued' = issued
        /\ (ResponseEvent /\ (Failed(Delivered) \/ ~Parsed(Delivered)))
              => /\ AppendedOne
                 /\ messages'[Len(messages') - 1].role = "user"
                 /\ IsErrorReply(Appended) ]_vars

\* Idle after two failed exchanges: two requests were issued, no third
C15_Witness ==
    /\ ~loading
    /\ inflight = <<>>
    /\ issued = 2
    /\ Len(messages) = 4
    /\ IsErrorReply(messages[2])
    /\ IsErrorReply(messages[4])
    /\ lastEvent.kind = "input"

----------------------------------------------------------------------------
\* the banner text is echoed by the last Message of the transcript
BannerAgrees(err, ms) ==
    err # Null =>
        /\ err.t = "string"
        /\ Len(ms) > 0
        /\ ms[Len(ms)].role = "assistant"
        /\ ms[Len(ms)].content.t = "string"
        /\ Contains(ms[Len(ms)].content.v, err.v)

\* C16: whenever error is non-null, the last Message is an assistant Message
\* whose content contains the error text; a non-null error changes only by
\* becoming null, and only at a dismissError or at an accepted submit, both of
\* which always clear it.
C16_BannerAndReply ==
    [][ /\ BannerAgrees(error', messages')
        /\ (error # Null /\ error' # error)
              => /\ error' = Null
                 /\ \/ lastEvent'.kind = "dismissError"
                    \/ SubmitEvent /\ RequestIssued
        /\ (lastEvent'.kind = "dismissError" \/ RequestIssued)
              => error' = Null ]_vars

\* the banner of a failed second exchange is still shown after the user typed
C16_Witness ==
    /\ error # Null
    /\ lastEvent.kind = "input"
    /\ question = <<" ", "a">>
    /\ Len(messages) = 4
    /\ Contains(messages[4].content.v, error.v)

----------------------------------------------------------------------------
\* C17: the transcript alternates user, assistant, user, ... from a user
\* Message on.  When Idle its length is even (so its last Message, if any, is
\* an assistant Message); when Awaiting its length is odd and its last Message
\* is the user Message of the outstanding request.
C17_Alternation ==
    /\ \A i \in 1..Len(messages) :
          messages[i].role = IF i % 2 = 1 THEN "user" ELSE "assistant"
    /\ ~loading => Len(messages) % 2 = 0
    /\ loading =>
          /\ Len(messages) % 2 = 1
          /\ Len(inflight) = 1
          /\ messages[Len(messages)].content = Str(inflight[1].body.question)

\* Awaiting the second reply after an answered first exchange
C17_Witness ==
    /\ loading
    /\ Len(messages) = 3
    /\ messages[2].content = Answer
    /\ messages[2].sources = Arr(<<Source>>)

\* C18: while loading the input is empty and error is null; with the input
\* and the quick-question buttons disabled the input stays empty until the
\* response, so a submit event during Awaiting returns at the trim guard.
C18_LoadingInputEmpty ==
    loading => (question = <<>> /\ error = Null)

\* Awaiting right after an auto-submit timer callback ran, banner gone
C18_Witness ==
    /\ loading
    /\ question = <<>>
    /\ error = Null
    /\ lastEvent.kind = "timer"
    /\ Len(messages) = 3
    /\ IsErrorReply(messages[2])

====
